---- MODULE Spec2Model ----
(***************************************************************************)
(* Model of the member selection of app.py: the field parsers              *)
(* (parse_stage, parse_power), generate_date_range, and the handler of the *)
(* "計算実行" button (members_dict, availability, ranking, fixed/variable    *)
(* partition, daily allocation in its two modes).                          *)
(*                                                                         *)
(* Texts are sequences of one-character strings.  The Japanese literals of *)
(* the source are written in ASCII:                                        *)
(*   "いつでも" -> "itsudemo"      "条件付き" -> "joukentsuki"                *)
(*   "無理/辞退" -> "muri/jitai"   "回答なし" -> "kaitounashi"                *)
(*   "戦力優先" -> "senryoku"      "平等モード" -> "byoudou"                  *)
(*   "◎" -> "fixed"  "〇" -> "selected"  "△" -> "pending"                  *)
(*   "済" -> "capped"  "✕" -> "unavailable"                                *)
(***************************************************************************)
EXTENDS Integers, Sequences, FiniteSets, TLC

VARIABLES
    df,                  \* the loaded sheet: a sequence of rows
    start_date,          \* sidebar date inputs (day ordinals)
    end_date,
    mode,                \* the selection mode radio
    pc,                  \* position in the handler
    ranked_members,      \* sequence of member records, rank order
    fixed_members,       \* sequence of indices into ranked_members
    variable_candidates, \* sequence of indices into ranked_members
    daily_schedule,      \* d_str -> sequence of names (dates processed so far)
    di,                  \* number of dates of target_dates already processed
    ptext,               \* parser harness: the text handed to the parser
    presult,             \* parser harness: what the parser gave
    ppc                  \* parser harness: position

vars == << df, start_date, end_date, mode, pc, ranked_members, fixed_members,
           variable_candidates, daily_schedule, di, ptext, presult, ppc >>

allocVars == << df, start_date, end_date, mode, pc, ranked_members,
                fixed_members, variable_candidates, daily_schedule, di >>

parseVars == << ptext, presult, ppc >>

-----------------------------------------------------------------------------
(* Bounds *)

MaxLen == 3          \* longest text handed to a parser in ParseSpec
MaxSpan == 3         \* end_date is at most start_date + MaxSpan
MaxCap == 2          \* largest cap written in a sheet cell
BlockSize == 11      \* rows of a large block of like members in the sheet
SmallBlock == 2      \* rows of the block of conditional members

-----------------------------------------------------------------------------
(* Small helpers on sequences and texts *)

Min(a, b) == IF a < b THEN a ELSE b

Range(s) == { s[i] : i \in 1..Len(s) }

Contains(s, c) == \E i \in 1..Len(s) : s[i] = c

\* str.replace(c, '') for a one-character c
RECURSIVE Remove(_, _)
Remove(s, c) ==
    IF s = << >> THEN << >>
    ELSE IF Head(s) = c THEN Remove(Tail(s), c)
         ELSE << Head(s) >> \o Remove(Tail(s), c)

\* str.upper() on the letters the model's texts use
UpperChar(c) ==
    CASE c = "k" -> "K"
      [] c = "m" -> "M"
      [] c = "a" -> "A"
      [] OTHER -> c

Upper(s) == [ i \in 1..Len(s) |-> UpperChar(s[i]) ]

\* str.strip(): drop leading and trailing blanks
RECURSIVE LStrip(_)
LStrip(s) ==
    IF s # << >> /\ Head(s) = " " THEN LStrip(Tail(s)) ELSE s

RECURSIVE RStrip(_)
RStrip(s) ==
    IF s # << >> /\ s[Len(s)] = " " THEN RStrip(SubSeq(s, 1, Len(s) - 1)) ELSE s

Strip(s) == RStrip(LStrip(s))

DigitChars == { "0", "1", "2", "3", "4", "5", "6", "7", "8", "9" }

DigitVal(c) ==
    CASE c = "0" -> 0 [] c = "1" -> 1 [] c = "2" -> 2 [] c = "3" -> 3
      [] c = "4" -> 4 [] c = "5" -> 5 [] c = "6" -> 6 [] c = "7" -> 7
      [] c = "8" -> 8 [] c = "9" -> 9

\* int() of a text of digits
RECURSIVE IntOf(_)
IntOf(s) ==
    IF s = << >> THEN 0
    ELSE 10 * IntOf(SubSeq(s, 1, Len(s) - 1)) + DigitVal(s[Len(s)])

\* length of the longest prefix of s made of digits (\d+ is greedy)
RECURSIVE DigitRun(_)
DigitRun(s) ==
    IF s # << >> /\ Head(s) \in DigitChars THEN 1 + DigitRun(Tail(s)) ELSE 0

\* length of the longest prefix of s made of non-digits ([^0-9]+ is greedy)
RECURSIVE NonDigitRun(_)
NonDigitRun(s) ==
    IF s # << >> /\ Head(s) \notin DigitChars THEN 1 + NonDigitRun(Tail(s)) ELSE 0

Drop(s, n) == SubSeq(s, n + 1, Len(s))

-----------------------------------------------------------------------------
(* parse_stage: "45-2" -> (45, 2) *)

parse_stage(stage_str) ==
    LET s  == Strip(stage_str)
        n1 == DigitRun(s)
        r1 == Drop(s, n1)
        n2 == NonDigitRun(r1)
        r2 == Drop(r1, n2)
        n3 == DigitRun(r2)
    IN  IF n1 > 0 /\ n2 > 0 /\ n3 > 0
            THEN << IntOf(SubSeq(s, 1, n1)), IntOf(SubSeq(r2, 1, n3)) >>
        ELSE IF n1 > 0 THEN << IntOf(SubSeq(s, 1, n1)), 0 >>
        ELSE << 0, 0 >>

-----------------------------------------------------------------------------
(* Decimal values: [m |-> mantissa, e |-> exponent] stands for m * 10^e,   *)
(* normalised so that equal numbers are equal records.                     *)

RECURSIVE Norm(_, _)
Norm(m, e) ==
    IF m = 0 THEN [m |-> 0, e |-> 0]
    ELSE IF m % 10 = 0 THEN Norm(m \div 10, e + 1)
    ELSE [m |-> m, e |-> e]

Zero == Norm(0, 0)

RECURSIVE Pow10(_)
Pow10(n) == IF n <= 0 THEN 1 ELSE 10 * Pow10(n - 1)

\* a < b on decimal values
DecLess(a, b) ==
    LET lo == Min(a.e, b.e)
    IN  a.m * Pow10(a.e - lo) < b.m * Pow10(b.e - lo)

\* a * 10^k
Scale(a, k) == Norm(a.m, a.e + k)

\* float(s) accepts s: blanks around [digits][.digits] with at least one digit
\* (signs, exponents, underscores, inf and nan use characters outside the
\* model's alphabet)
IsFloat(s) ==
    LET t  == Strip(s)
        n1 == DigitRun(t)
        r1 == Drop(t, n1)
    IN  IF r1 = << >> THEN n1 > 0
        ELSE /\ Head(r1) = "."
             /\ DigitRun(Tail(r1)) = Len(r1) - 1
             /\ n1 + Len(r1) - 1 > 0

\* float(s) for an accepted s
FloatOf(s) ==
    LET t  == Strip(s)
        n1 == DigitRun(t)
        r1 == Drop(t, n1)
        fr == IF r1 = << >> THEN << >> ELSE Tail(r1)
    IN  Norm(IntOf(SubSeq(t, 1, n1) \o fr), 0 - Len(fr))

Returned(v) == [raised |-> FALSE, val |-> v]
Raised == [raised |-> TRUE, val |-> Zero]

\* float(s.replace(suffix, '')) * 10^k, outside any try
ScaledFloat(s, suffix, k) ==
    IF IsFloat(Remove(s, suffix))
        THEN Returned(Scale(FloatOf(Remove(s, suffix)), k))
        ELSE Raised

parse_power(power_val) ==
    IF power_val = << >> THEN Returned(Zero)
    ELSE LET s == Strip(Remove(Remove(Upper(power_val), ","), "\""))
         IN  IF Contains(s, "M") THEN ScaledFloat(s, "M", 6)
             ELSE IF Contains(s, "K") THEN ScaledFloat(s, "K", 3)
             ELSE IF IsFloat(s) THEN Returned(FloatOf(s))
             ELSE Returned(Zero)

-----------------------------------------------------------------------------
(* Dates.  A date is a day ordinal; ordinal 0 is a Monday, so weekday 6 is *)
(* Sunday.  strftime('%Y-%m-%d') is the date's key text.                   *)

weekday(d) == d % 7

strftime(d) == ToString(d)

\* the elements of a finite set of integers, ascending
SortedSeq(S) ==
    [ k \in 1..Cardinality(S) |->
        CHOOSE x \in S : Cardinality({ y \in S : y < x }) = k - 1 ]

generate_date_range(s, e) ==
    SortedSeq({ d \in s..e : weekday(d) # 6 })

target_dates == generate_date_range(start_date, end_date)

all_dates_keys == [ i \in 1..Len(target_dates) |-> strftime(target_dates[i]) ]

-----------------------------------------------------------------------------
(* Program constants *)

DAILY_SIZE == 20     \* slots_needed = 20 - len(todays_team)
FIXED_CAP == 10      \* len(fixed_members) < 10

-----------------------------------------------------------------------------
(* Answers.  The handler tests the answer text for substrings.             *)

ANS_ALWAYS == "itsudemo"
ANS_COND == "joukentsuki"
ANS_DECLINED == "muri/jitai"
ANS_NONE == "kaitounashi"
ANS_LEGACY == "sanka muri desu"   \* a free-text answer holding "無理"
ANS_OTHER == "mitei"              \* a free-text answer matching nothing

Answers == { ANS_ALWAYS, ANS_COND, ANS_DECLINED, ANS_NONE, ANS_LEGACY, ANS_OTHER }

\* "無理" in answer or "辞退" in answer or "回答なし" in answer
Declines(answer) == answer \in { ANS_DECLINED, ANS_NONE, ANS_LEGACY }

is_ok(data, d_str) ==
    IF Declines(data.answer) THEN FALSE
    ELSE IF data.answer = ANS_ALWAYS THEN TRUE
    ELSE IF data.answer = ANS_COND THEN d_str \in data.specific_dates
    ELSE FALSE

availability(data) == [ k \in Range(all_dates_keys) |-> is_ok(data, k) ]

-----------------------------------------------------------------------------
(* 1. members_dict: keyed by name, a later row of the same name replaces   *)
(* the values and keeps the place of the first.                            *)

\* the cap cell: << >> when it is not a digit string, << n >> when it is
max_c(row) == IF row.cap # << >> THEN row.cap[1] ELSE Len(target_dates)

member_data(row) ==
    [ progress |-> row.progress, power |-> row.power, answer |-> row.answer,
      specific_dates |-> row.dates, max_count |-> max_c(row) ]

LastRow(name) ==
    df[CHOOSE i \in 1..Len(df) :
          /\ df[i].name = name
          /\ \A j \in (i + 1)..Len(df) : df[j].name # name]

members_dict ==
    LET first == SortedSeq({ i \in 1..Len(df) :
                               \A j \in 1..(i - 1) : df[j].name # df[i].name })
    IN  [ k \in 1..Len(first) |->
            [ name |-> df[first[k]].name,
              data |-> member_data(LastRow(df[first[k]].name)) ] ]

EmptyFn == [ x \in {} |-> x ]

-----------------------------------------------------------------------------
(* 2. ranked_members *)

new_member(entry) ==
    [ name |-> entry.name,
      progress_val |-> parse_stage(entry.data.progress),
      power_val |-> parse_power(entry.data.power).val,
      availability |-> availability(entry.data),
      max_count |-> entry.data.max_count,
      answer |-> entry.data.answer,
      count |-> 0,
      status |-> EmptyFn ]

\* key (progress_val, power_val), reverse=True
RankBefore(x, y) ==
    \/ x.progress_val[1] > y.progress_val[1]
    \/ /\ x.progress_val[1] = y.progress_val[1]
       /\ x.progress_val[2] > y.progress_val[2]
    \/ /\ x.progress_val = y.progress_val
       /\ DecLess(y.power_val, x.power_val)

\* the equal-mode key without the count
EqualBefore_without_count(x, y) == RankBefore(x, y)

\* key (count, -progress_val[0], -progress_val[1], -power_val)
EqualBefore(x, y) ==
    \/ x.count < y.count
    \/ x.count = y.count /\ RankBefore(x, y)

\* the power-mode key without the answer flag
PowerBefore_without_answer(x, y) == RankBefore(x, y)

\* key (answer != '条件付き', -progress_val[0], -progress_val[1], -power_val)
PowerBefore(x, y) ==
    \/ x.answer = ANS_COND /\ y.answer # ANS_COND
    \/ (x.answer = ANS_COND) = (y.answer = ANS_COND) /\ RankBefore(x, y)

MODE_POWER == "senryoku"
MODE_EQUAL == "byoudou"

\* the order of the sort named key: "rank", or the mode of a daily sort
KeyBefore(key, x, y) ==
    IF key = "rank" THEN RankBefore(x, y)
    ELSE IF key = MODE_EQUAL THEN EqualBefore(x, y)
    ELSE PowerBefore(x, y)

\* list.sort is stable: x goes before y when its key is smaller, and members
\* of equal key keep their order.  The positions of s in sorted order:
ArgSortVal(s, key) ==
    LET pos == [ i \in 1..Len(s) |->
                  1 + Cardinality({ j \in 1..Len(s) :
                        \/ KeyBefore(key, s[j], s[i])
                        \/ (~KeyBefore(key, s[i], s[j]) /\ j < i) }) ]
    IN  [ k \in 1..Len(s) |-> CHOOSE i \in 1..Len(s) : pos[i] = k ]

\* (the arguments are bound to their values once)
ArgSort(s, key) == CHOOSE r \in { ArgSortVal(v, key) : v \in { s } } : TRUE

ApplyOrder(s, ord) ==
    CHOOSE r \in { [ k \in 1..Len(o) |-> v[o[k]] ] : v \in { s }, o \in { ord } } : TRUE

SortBy(s, key) == ApplyOrder(s, ArgSort(s, key))

sorted_members ==
    CHOOSE r \in { SortBy([ k \in 1..Len(md) |-> new_member(md[k]) ], "rank") :
                   md \in { members_dict } } : TRUE

power_raises == \E k \in 1..Len(members_dict) :
                    parse_power(members_dict[k].data.power).raised

-----------------------------------------------------------------------------
(* 3. fixed / variable partition over a ranked list rm *)

is_all_ok(m) == \A k \in Range(all_dates_keys) : m.availability[k]

\* the partition with the size test off by one
becomes_fixed_off_by_one(m, nfixed) ==
    nfixed <= FIXED_CAP /\ is_all_ok(m) /\ m.max_count >= Len(target_dates)

becomes_fixed(m, nfixed) ==
    nfixed < FIXED_CAP /\ is_all_ok(m) /\ m.max_count >= Len(target_dates)

\* the indices of the fixed members among the first n of rm
fixed_step(f, m, n) == IF becomes_fixed(m, Len(f)) THEN Append(f, n) ELSE f

RECURSIVE fixed_upto(_, _)
fixed_upto(rm, n) ==
    IF n = 0 THEN << >>
    ELSE CHOOSE r \in { fixed_step(f, rm[n], n) : f \in { fixed_upto(rm, n - 1) } } : TRUE

partition_fixed(rm) == fixed_upto(rm, Len(rm))

partition_variable(rm) ==
    SortedSeq((1..Len(rm)) \ Range(partition_fixed(rm)))

-----------------------------------------------------------------------------
(* 4. one pass of the daily loop, for the date key d_str *)

name_of(i) == ranked_members[i].name

fixed_names == [ k \in 1..Len(fixed_members) |-> name_of(fixed_members[k]) ]

\* the slots counted without the fixed members
slots_needed_without_fixed == DAILY_SIZE

\* after (A) todays_team holds the fixed members
slots_needed == DAILY_SIZE - Len(fixed_names)

\* the candidate filter without the cap test
eligible_without_cap(m, d_str) == m.availability[d_str]

eligible(m, d_str) == m.availability[d_str] /\ m.count < m.max_count

todays_candidates(d_str) ==
    SelectSeq(variable_candidates, LAMBDA i : eligible(ranked_members[i], d_str))

\* the status tests in the other order
initial_status_cap_first(m, d_str) ==
    IF m.count >= m.max_count THEN "capped"
    ELSE IF ~m.availability[d_str] THEN "unavailable"
    ELSE "pending"

initial_status(m, d_str) ==
    IF ~m.availability[d_str] THEN "unavailable"
    ELSE IF m.count >= m.max_count THEN "capped"
    ELSE "pending"

members_at(idx) == [ k \in 1..Len(idx) |-> ranked_members[idx[k]] ]

\* todays_candidates.sort(key=...) by the key of the mode
sorted_candidates(d_str) ==
    ApplyOrder(todays_candidates(d_str),
               ArgSort(members_at(todays_candidates(d_str)), mode))

\* todays_candidates[:slots_needed] when slots_needed > 0
taken(d_str) ==
    IF slots_needed > 0
        THEN SubSeq(sorted_candidates(d_str), 1,
                    Min(slots_needed, Len(todays_candidates(d_str))))
        ELSE << >>

names_of(idx) == [ k \in 1..Len(idx) |-> name_of(idx[k]) ]

todays_team(d_str) == fixed_names \o names_of(taken(d_str))

\* the fixed append without the count
fixed_update_without_count(m, d_str) ==
    [ m EXCEPT !.status = (d_str :> "fixed") @@ @ ]

fixed_update(m, d_str) ==
    [ m EXCEPT !.count = @ + 1, !.status = (d_str :> "fixed") @@ @ ]

variable_update(m, d_str, is_taken) ==
    IF is_taken
        THEN [ m EXCEPT !.count = @ + 1, !.status = (d_str :> "selected") @@ @ ]
        ELSE [ m EXCEPT !.status = (d_str :> initial_status(m, d_str)) @@ @ ]

-----------------------------------------------------------------------------
(* The sheets and periods the model runs on *)

Blank == << >>

Row(n, pr, pw, ans, ds, cap) ==
    [ name |-> n, progress |-> pr, power |-> pw, answer |-> ans,
      dates |-> ds, cap |-> cap ]

\* top-ranked members who answered "always", cap cell empty
BlockA(n) == [ i \in 1..n |->
    Row("a" \o ToString(i), << "5", "0", "-", "3" >>, << "2", "M" >>,
        ANS_ALWAYS, {}, Blank) ]

\* "always" members who capped themselves at two days
BlockB(n) == [ i \in 1..n |->
    Row("b" \o ToString(i), << "5", "0" >>, << "1", "M" >>,
        ANS_ALWAYS, {}, << 2 >>) ]

\* lower-ranked "conditional" members free on two weekdays
BlockC(n) == [ i \in 1..n |->
    Row("c" \o ToString(i), << "4", "5", "-", "2" >>, << "5", "0", "0", "k" >>,
        ANS_COND, { strftime(7), strftime(8) }, Blank) ]

CapCells == { Blank } \cup { << n >> : n \in 0..MaxCap }

Progresses == { << >>, << "6", "0", "-", "1" >> }

DateLists == { {}, { strftime(7) }, { strftime(5), strftime(7), strftime(8), "x" } }

\* a newly registered conditional member "x"
CondRows ==
    { Row("x", << >>, << "1", ".", "5", "K" >>, ANS_COND, ds, cap) :
        ds \in DateLists, cap \in { Blank, << 1 >> } }

\* the rows a newly registered member "x" may have
NewRows ==
    { Row("x", pr, << "3", "M" >>, ANS_ALWAYS, {}, cap) :
        pr \in Progresses, cap \in CapCells }
    \cup CondRows
    \cup
    { Row("x", << "6", "0", "-", "1" >>, << "3", "M" >>, ans, { strftime(7) }, cap) :
        ans \in { ANS_DECLINED, ANS_NONE, ANS_LEGACY, ANS_OTHER },
        cap \in { Blank, << 0 >> } }
    \cup
    { Row("x", << >>, << "m" >>, ANS_ALWAYS, {}, Blank) }

\* a further row: another member, or a second row under a name already used
MoreRows ==
    { Row("y", << "6", "0" >>, << "9", "0", "0", "K" >>, ANS_COND, { strftime(8) }, << 1 >>),
      Row("x", << "7", "0" >>, << >>, ANS_ALWAYS, {}, Blank),
      Row("b1", << "9" >>, << "1" >>, ANS_DECLINED, {}, << 0 >>) }

Extras ==
    { << >> } \cup { << r >> : r \in NewRows }
              \cup { << r, q >> : r \in CondRows, q \in MoreRows }

\* the new member in the sheets that fill the roster
KeyRows ==
    { Row("x", << "6", "0", "-", "1" >>, << "3", "M" >>, ANS_ALWAYS, {}, Blank),
      Row("x", << >>, << "3", "M" >>, ANS_ALWAYS, {}, << 1 >>),
      Row("x", << >>, << "1", ".", "5", "K" >>, ANS_COND, { strftime(7) }, Blank),
      Row("x", << >>, << "1", ".", "5", "K" >>, ANS_COND,
          { strftime(5), strftime(7), strftime(8), "x" }, << 1 >>) }

\* sheets of a few members, with every new row
SmallSheets ==
    { BlockA(na) \o BlockB(nb) \o BlockC(nc) \o extra :
        na \in { 0, SmallBlock }, nb \in { 0, SmallBlock }, nc \in { 0, SmallBlock },
        extra \in Extras }

\* sheets with more members than a day has slots
BigSheets ==
    { BlockA(na) \o BlockB(nb) \o BlockC(nc) \o extra :
        na \in { BlockSize - 2, BlockSize }, nb \in { 0, BlockSize },
        nc \in { 0, SmallBlock },
        extra \in { << >> } \cup { << r >> : r \in KeyRows } }

Sheets == SmallSheets \cup BigSheets

StartDates == { 5, 6 }   \* a Saturday and a Sunday

-----------------------------------------------------------------------------
(* The handler of the "計算実行" button *)

Init ==
    /\ df \in Sheets
    /\ start_date \in StartDates
    /\ end_date \in (start_date - 1)..(start_date + MaxSpan)
    /\ mode \in { MODE_POWER, MODE_EQUAL }
    /\ pc = "idle"
    /\ ranked_members = << >>
    /\ fixed_members = << >>
    /\ variable_candidates = << >>
    /\ daily_schedule = EmptyFn
    /\ di = 0
    /\ ptext = << >>
    /\ presult = Returned(Zero)
    /\ ppc = "off"

\* the handler without its df.empty test: the allocation runs on no member
NoData_allocates ==
    /\ pc = "idle"
    /\ df = << >>
    /\ pc' = "allocating"
    /\ UNCHANGED << df, start_date, end_date, mode, ranked_members, fixed_members,
                    variable_candidates, daily_schedule, di >>
    /\ UNCHANGED parseVars

\* if df.empty: st.error("データがありません。")
NoData ==
    /\ pc = "idle"
    /\ df = << >>
    /\ pc' = "nodata"
    /\ UNCHANGED << df, start_date, end_date, mode, ranked_members, fixed_members,
                    variable_candidates, daily_schedule, di >>
    /\ UNCHANGED parseVars

\* parse_power raises while ranked_members is built: the handler stops there
PrepareRaises ==
    /\ pc = "idle"
    /\ df # << >>
    /\ power_raises
    /\ pc' = "raised"
    /\ UNCHANGED << df, start_date, end_date, mode, ranked_members, fixed_members,
                    variable_candidates, daily_schedule, di >>
    /\ UNCHANGED parseVars

\* steps 1 to 3: members_dict, ranking, partition
Prepare ==
    /\ pc = "idle"
    /\ df # << >>
    /\ ~power_raises
    /\ \E rm \in { sorted_members } :
           /\ ranked_members' = rm
           /\ fixed_members' = partition_fixed(rm)
           /\ variable_candidates' = partition_variable(rm)
    /\ daily_schedule' = EmptyFn
    /\ di' = 0
    /\ pc' = "allocating"
    /\ UNCHANGED << df, start_date, end_date, mode >>
    /\ UNCHANGED parseVars

\* step 4: one iteration of "for d in target_dates"
ProcessDate ==
    /\ pc = "allocating"
    /\ di < Len(target_dates)
    /\ \E d_str \in { all_dates_keys[di + 1] } :
       \E tk \in { taken(d_str) } :
       \E tkset \in { Range(tk) } :
       \E fx \in { Range(fixed_members) } :
           /\ ranked_members' =
                [ i \in 1..Len(ranked_members) |->
                    IF i \in fx
                        THEN fixed_update(ranked_members[i], d_str)
                        ELSE variable_update(ranked_members[i], d_str, i \in tkset) ]
           /\ daily_schedule' = (d_str :> (fixed_names \o names_of(tk))) @@ daily_schedule
    /\ di' = di + 1
    /\ UNCHANGED << df, start_date, end_date, mode, pc, fixed_members,
                    variable_candidates >>
    /\ UNCHANGED parseVars

\* steps 5 and 6: the loop is over, the result is shown
Finish ==
    /\ pc = "allocating"
    /\ di = Len(target_dates)
    /\ pc' = "done"
    /\ UNCHANGED << df, start_date, end_date, mode, ranked_members, fixed_members,
                    variable_candidates, daily_schedule, di >>
    /\ UNCHANGED parseVars

Next == NoData \/ PrepareRaises \/ Prepare \/ ProcessDate \/ Finish

Spec == Init /\ [][Next]_vars

-----------------------------------------------------------------------------
(* The parser harness: parse_power applied to every short text *)

Alphabet == { "1", "0", ".", "K", "m", ",", " ", "a" }

Texts == UNION { [ 1..n -> Alphabet ] : n \in 0..MaxLen }

ParseInit ==
    /\ ptext \in Texts
    /\ presult = Returned(Zero)
    /\ ppc = "ready"
    /\ df = << >>
    /\ start_date = 0
    /\ end_date = 0
    /\ mode = MODE_POWER
    /\ pc = "off"
    /\ ranked_members = << >>
    /\ fixed_members = << >>
    /\ variable_candidates = << >>
    /\ daily_schedule = EmptyFn
    /\ di = 0

ParseStep ==
    /\ ppc = "ready"
    /\ presult' = parse_power(ptext)
    /\ ppc' = "parsed"
    /\ UNCHANGED ptext
    /\ UNCHANGED allocVars

ParseSpec == ParseInit /\ [][ParseStep]_vars

-----------------------------------------------------------------------------
(* Properties *)

Running == pc \in { "allocating", "done" }

VariablePool == Range(variable_candidates)

FixedSet == Range(fixed_members)

ProcessedKeys == { all_dates_keys[k] : k \in 1..di }

\* the step that processes the date of key d
Processes(d) == pc = "allocating" /\ di < Len(target_dates) /\ di' = di + 1
                /\ d = all_dates_keys[di + 1]

InRoster(sched, d, i) == ranked_members[i].name \in Range(sched[d])

\* available on d with the count, as it stands before the step, below the cap
EligibleNow(i, d) ==
    /\ ranked_members[i].availability[d]
    /\ ranked_members[i].count < ranked_members[i].max_count

\* x has the strictly higher (progress major, progress minor, power)
KeyAbove(x, y) ==
    \/ x.progress_val[1] > y.progress_val[1]
    \/ x.progress_val[1] = y.progress_val[1] /\ x.progress_val[2] > y.progress_val[2]
    \/ x.progress_val = y.progress_val /\ DecLess(y.power_val, x.power_val)

\* C1: a variable member is appended to a date's roster only if it is
\* available that date and its count before the date's filling is below its
\* cap; so no variable member's count ever exceeds its cap.
C1_VariableOnlyIfEligible ==
    [][ \A d \in Range(all_dates_keys) : Processes(d) =>
          \A i \in VariablePool :
             /\ InRoster(daily_schedule', d, i) => EligibleNow(i, d)
             /\ ranked_members'[i].count <= ranked_members'[i].max_count ]_vars

C1_Witness ==
    /\ pc = "done"
    /\ \E i \in VariablePool : \E d \in DOMAIN ranked_members[i].status :
          /\ ranked_members[i].status[d] = "capped"
          /\ ranked_members[i].count = ranked_members[i].max_count
          /\ ranked_members[i].count > 0

\* C2: after any prefix of the period every member's count equals the number
\* of processed dates whose roster holds its name, and no roster holds a
\* name twice.
C2_CountMatchesRosters ==
    Running =>
        /\ DOMAIN daily_schedule = ProcessedKeys
        /\ \A i \in 1..Len(ranked_members) :
              ranked_members[i].count =
                 Cardinality({ d \in DOMAIN daily_schedule : InRoster(daily_schedule, d, i) })
        /\ \A d \in DOMAIN daily_schedule :
              Cardinality(Range(daily_schedule[d])) = Len(daily_schedule[d])

C2_Witness ==
    /\ pc = "done"
    /\ \E i \in FixedSet : ranked_members[i].count >= 2
    /\ \E i \in VariablePool : ranked_members[i].count > 0
                            /\ ranked_members[i].count < Len(target_dates)

\* C3: a date's roster has at most 20 names, and its size is the number of
\* fixed members plus min(20 - fixed, eligible candidates); a slot stays
\* empty only when every eligible candidate was selected.
C3_RosterSize ==
    [][ \A d \in Range(all_dates_keys) : Processes(d) =>
          LET elig == { i \in VariablePool : EligibleNow(i, d) }
              size == Len(daily_schedule'[d])
          IN  /\ size <= 20
              /\ size = Len(fixed_members)
                          + Min(20 - Len(fixed_members), Cardinality(elig))
              /\ size < 20 => \A i \in elig : InRoster(daily_schedule', d, i) ]_vars

C3_Witness ==
    \E d \in DOMAIN daily_schedule :
        /\ Len(daily_schedule[d]) = 20
        /\ \E i \in VariablePool : ranked_members[i].status[d] = "pending"

Qualifies(i) ==
    /\ \A k \in Range(all_dates_keys) : ranked_members[i].availability[k]
    /\ ranked_members[i].max_count >= Len(target_dates)

\* C4: in rank order a member is fixed iff fewer than 10 were fixed before
\* it, it is available on every date and its cap covers the period; the
\* others form the variable pool in rank order.  So at most 10 are fixed,
\* every fixed member is available every date, and no qualifying member of
\* the pool ranks above a fixed member.
C4_Partition ==
    Running =>
        /\ \A i, j \in 1..Len(ranked_members) :
              i < j => ~KeyAbove(ranked_members[j], ranked_members[i])
        /\ \A n \in 1..Len(ranked_members) :
              n \in FixedSet <=>
                 /\ Cardinality({ f \in FixedSet : f < n }) < 10
                 /\ Qualifies(n)
        /\ VariablePool = (1..Len(ranked_members)) \ FixedSet
        /\ \A a, b \in 1..Len(variable_candidates) :
              a < b => variable_candidates[a] < variable_candidates[b]
        /\ \A a, b \in 1..Len(fixed_members) :
              a < b => fixed_members[a] < fixed_members[b]
        /\ Len(fixed_members) <= 10
        /\ \A f \in FixedSet : \A v \in VariablePool : Qualifies(v) => f < v

C4_Witness ==
    /\ Running
    /\ Len(fixed_members) = 10
    /\ Len(target_dates) > 0
    /\ \E v \in VariablePool : Qualifies(v)

\* C5: in equal-opportunity mode no eligible variable member is left out on
\* a date on which an eligible one with a strictly higher count is selected.
C5_EqualModeLowerCountFirst ==
    [][ \A d \in Range(all_dates_keys) : (Processes(d) /\ mode = MODE_EQUAL) =>
          \A i, j \in VariablePool :
             ( /\ EligibleNow(i, d) /\ EligibleNow(j, d)
               /\ ranked_members[i].count < ranked_members[j].count
               /\ InRoster(daily_schedule', d, j) )
             => InRoster(daily_schedule', d, i) ]_vars

\* a lower-ranked member was selected, with the lower count, over a
\* higher-ranked one
C5_Witness ==
    /\ mode = MODE_EQUAL
    /\ \E d \in DOMAIN daily_schedule : \E i, j \in VariablePool :
          /\ ranked_members[i].status[d] = "selected"
          /\ ranked_members[j].status[d] = "pending"
          /\ KeyAbove(ranked_members[j], ranked_members[i])

C7_EmptySheetEmptySchedule ==
    (df = << >> /\ pc # "idle") =>
        /\ pc = "done"
        /\ fixed_members = << >>
        /\ \A d \in Range(all_dates_keys) :
              d \in DOMAIN daily_schedule /\ daily_schedule[d] = << >>

\* C7 as amended: a run on an empty sheet raises nothing and allocates
\* nothing: the handler reports "no data", no date is mapped to a roster
\* and no fixed set is computed.
C7_EmptySheetNoSchedule ==
    (df = << >> /\ pc # "idle") =>
        /\ pc = "nodata"
        /\ daily_schedule = EmptyFn
        /\ fixed_members = << >>
        /\ ranked_members = << >>

C7_Witness == pc = "nodata" /\ df = << >> /\ Len(target_dates) > 0

\* C8: parse_power never raises.
C8_ParsePowerNeverRaises == ppc = "parsed" => ~presult.raised

\* C9: every step of the daily loop gives each variable member one status
\* for the date, decided by its state before the filling, and each fixed
\* member the status "fixed"; the statuses of earlier dates stay.
C9_Statuses ==
    [][ \A d \in Range(all_dates_keys) : Processes(d) =>
          \A i \in 1..Len(ranked_members) :
             LET st  == ranked_members'[i].status
                 in_ == InRoster(daily_schedule', d, i)
             IN  /\ DOMAIN st = ProcessedKeys \cup { d }
                 /\ \A e \in ProcessedKeys : st[e] = ranked_members[i].status[e]
                 /\ i \in FixedSet => st[d] = "fixed"
                 /\ i \in VariablePool =>
                      /\ st[d] \in { "unavailable", "capped", "selected", "pending" }
                      /\ st[d] = "unavailable" <=> ~ranked_members[i].availability[d]
                      /\ st[d] = "capped" <=>
                            /\ ranked_members[i].availability[d]
                            /\ ranked_members[i].count >= ranked_members[i].max_count
                      /\ st[d] = "selected" <=> in_
                      /\ st[d] = "pending" <=> (EligibleNow(i, d) /\ ~in_) ]_vars

StatusSeen(s) ==
    \E i \in 1..Len(ranked_members) : \E d \in DOMAIN ranked_members[i].status :
        ranked_members[i].status[d] = s

HasStatus(i, s) ==
    \E d \in DOMAIN ranked_members[i].status : ranked_members[i].status[d] = s

C9_Witness ==
    /\ pc = "done"
    /\ \A s \in { "fixed", "unavailable", "capped", "selected", "pending" } : StatusSeen(s)
    /\ \E i \in VariablePool : HasStatus(i, "unavailable") /\ HasStatus(i, "capped")

\* C10: a member who answered Declined or NoResponse is never in the fixed
\* set and never in a roster, whatever the period.
C10_DeclinedNeverChosen ==
    Running =>
        \A i \in 1..Len(ranked_members) :
            ranked_members[i].answer \in { ANS_DECLINED, ANS_NONE } =>
                /\ i \notin FixedSet
                /\ \A d \in DOMAIN daily_schedule : ~InRoster(daily_schedule, d, i)

====
